---- MODULE Spec2Model ----
(***************************************************************************)
(* A model of simd_psmap::SimdPerfectScanMap (src/src/lib.rs): the build   *)
(* (try_from: capacity checks, greedy selection of discriminating byte     *)
(* positions, layout of the test planes) and the lookup (get: the scan of  *)
(* every lane group, the candidate index, the final key comparison).       *)
(*                                                                         *)
(* A key is a sequence of bytes (TLA+ sequences are 1-based, the code's    *)
(* offsets are 0-based: byte p of key k is k[p + 1]).  An entry is a pair  *)
(* <<key, value>>.  Fixed-size arrays are functions on 0 .. size - 1.      *)
(***************************************************************************)
EXTENDS Integers, Sequences, FiniteSets, TLC

\* ------------------------------------------------------------------ bounds

\* Most entries of the enumerated entry lists.
MaxKeys == 3
\* The values of type T (DummyVal(usize) in the tests) are 0..MaxDummyVal.
MaxDummyVal == 1010

\* ------------------------------------------------------- program constants

MAX_KEY_SEARCH_LEN == 32

\* position_score[new_char_idx] = usize::MAX marks an offset already chosen.
\* TLC's integers are 32-bit, so the model uses the largest of them: nothing is
\* ever added to it, and every real score (at most 6 per key, for at most
\* 64 * MAX_LANES keys) is far below it, which is all min_by_key and == 0 read.
USIZE_MAX == 2147483647

\* The three error messages of try_from.
EmptyInput == "Empty map not supported"
CapacityExceeded == "Too many keys to perform even a single scan"
Unsolvable == "Unable to 'solve' with a sufficiently small number of scans"

\* --------------------------------------------------------------- helpers

Min2(a, b) == IF a < b THEN a ELSE b

\* usize::div_ceil
DivCeil(a, b) == (a + b - 1) \div b

\* `x as u8` of a wrapped usize difference: 2^64 is a multiple of 256, so the
\* low byte of a.wrapping_sub(b) is (a - b) mod 256.
WrappingSubU8(a, b) == (a - b) % 256

\* `x as i8`
AsI8(x) == LET m == x % 256 IN IF m >= 128 THEN m - 256 ELSE m

\* Mutant of roughly_log_2: the floor of log2, which is 0 for one other key.
RECURSIVE roughly_log_2_floor(_)
roughly_log_2_floor(x) == IF x <= 1 THEN 0 ELSE 1 + roughly_log_2_floor(x \div 2)

\* Number of bits of x: usize::BITS - x.leading_zeros().
RECURSIVE roughly_log_2(_)
roughly_log_2(x) == IF x = 0 THEN 0 ELSE 1 + roughly_log_2(x \div 2)

\* Mutant of PaddedByte: pads with zero beyond the end of a key.
PaddedByteZero(k, p) == IF p < Len(k) THEN k[p + 1] ELSE 0

\* *k.get(p).unwrap_or(&(p.wrapping_sub(k.len()) as u8)): the byte of key k at
\* offset p, or the length-aware padding byte beyond its end.
PaddedByte(k, p) == IF p < Len(k) THEN k[p + 1] ELSE WrappingSubU8(p, Len(k))

KeyOf(entry) == entry[1]
ValOf(entry) == entry[2]

RECURSIVE SeqMax(_, _)
SeqMax(s, i) == IF i > Len(s) THEN 0
                ELSE LET r == SeqMax(s, i + 1) IN IF s[i] > r THEN s[i] ELSE r

\* key_vals.iter().map(|(k, _)| k.len()).max().unwrap().min(MAX_KEY_SEARCH_LEN)
MaxLenOf(key_vals) ==
    Min2(SeqMax([i \in 1..Len(key_vals) |-> Len(KeyOf(key_vals[i]))], 1),
         MAX_KEY_SEARCH_LEN)

\* ------------------------------------------------ try_from: the selection

\* positions is a sequence of offsets. tests_matches_keys[idx] for k_self:
\* true iff key idx has the same padded byte as k_self at every position.
TestsMatch(key_vals, positions, self, idx) ==
    \A j \in 1..Len(positions) :
        PaddedByte(KeyOf(key_vals[self]), positions[j])
            = PaddedByte(KeyOf(key_vals[idx]), positions[j])

\* tests_matches_keys.iter().map(|&b| b as usize).sum() - 1
TestsScanNOtherKeys(key_vals, positions, self) ==
    Cardinality({idx \in 1..Len(key_vals) :
                    TestsMatch(key_vals, positions, self, idx)}) - 1

RECURSIVE ScoreSum(_, _, _)
ScoreSum(key_vals, positions, self) ==
    IF self > Len(key_vals) THEN 0
    ELSE roughly_log_2(TestsScanNOtherKeys(key_vals, positions, self))
            + ScoreSum(key_vals, positions, self + 1)

InSeq(x, s) == \E j \in 1..Len(s) : s[j] = x

\* position_score[new_char_idx] after the scoring loop of one iteration.
PositionScore(key_vals, positions, new_char_idx) ==
    IF InSeq(new_char_idx, positions) THEN USIZE_MAX
    ELSE ScoreSum(key_vals, Append(positions, new_char_idx), 1)

\* position_score.iter().enumerate().min_by_key(|(_, s)| *s).unwrap().0:
\* the first index of a minimal score (score is a function on 0 .. n - 1, n >= 1).
BestIdx(score) ==
    CHOOSE b \in DOMAIN score :
        /\ \A c \in DOMAIN score : score[b] <= score[c]
        /\ \A c \in DOMAIN score : score[c] = score[b] => b <= c

\* The loop `for _ in 1..=(MAX_LANES / n_lanes_of_entities)`, with `left`
\* iterations to go. The outcome is "solved" (break at score 0), "unsolved"
\* (the range is exhausted) or "panic" (min_by_key of an empty position_score
\* is None, and unwrap() panics), with the positions pushed so far.
RECURSIVE SelectLoop(_, _, _, _)
SelectLoop(key_vals, max_len, positions, left) ==
    IF left = 0 THEN [outcome |-> "unsolved", positions |-> positions]
    ELSE IF max_len = 0 THEN [outcome |-> "panic", positions |-> positions]
    ELSE LET position_score ==
                 [c \in 0..(max_len - 1) |-> PositionScore(key_vals, positions, c)]
             best_idx == BestIdx(position_score)
             pushed == Append(positions, best_idx)
         IN  IF position_score[best_idx] = 0
             THEN [outcome |-> "solved", positions |-> pushed]
             ELSE SelectLoop(key_vals, max_len, pushed, left - 1)

\* ---------------------------------------------------- try_from: the layout

\* key_vals.len().div_ceil(LANE_SIZE)
NLanesOfEntities(key_vals, lane_size) == DivCeil(Len(key_vals), lane_size)

\* char_positions after the layout loops: char_positions[lane_idx * n_chars +
\* scan_idx] = positions[scan_idx], every other element stays 0.
CharPositions(positions, n_lanes, max_lanes) ==
    [test_idx \in 0..(max_lanes - 1) |->
        IF test_idx < n_lanes * Len(positions)
        THEN positions[(test_idx % Len(positions)) + 1]
        ELSE 0]

\* The vector v written to indexes[lane_idx * n_chars + scan_idx]. The code
\* reads the offset as char_positions[scan_idx] (not [test_idx]); that element
\* was written while laying out lane 0 and is never written again with
\* another value, so the read sees the final array's element.
Plane(key_vals, char_positions, lane_size, lane_idx, scan_idx) ==
    LET start_idx == lane_idx * lane_size
        end_idx == IF start_idx + lane_size > Len(key_vals)
                   THEN Len(key_vals) ELSE start_idx + lane_size
    IN  [idx \in 0..(lane_size - 1) |->
            IF start_idx + idx < end_idx
            THEN PaddedByte(KeyOf(key_vals[start_idx + idx + 1]),
                            char_positions[scan_idx])
            ELSE 0]

Indexes(key_vals, char_positions, n_chars, n_lanes, max_lanes, lane_size) ==
    [test_idx \in 0..(max_lanes - 1) |->
        IF test_idx < n_lanes * n_chars
        THEN Plane(key_vals, char_positions, lane_size,
                   test_idx \div n_chars, test_idx % n_chars)
        ELSE [idx \in 0..(lane_size - 1) |-> 0]]

\* Mutant of NValid: every lane group counts as full.
NValidFull(key_vals, n_chars, n_lanes, max_lanes, lane_size) ==
    [test_idx \in 0..(max_lanes - 1) |->
        IF test_idx < n_lanes * n_chars THEN lane_size ELSE 0]

\* n_valid[test_idx] = end_idx - start_idx of the test's lane group.
NValid(key_vals, n_chars, n_lanes, max_lanes, lane_size) ==
    [test_idx \in 0..(max_lanes - 1) |->
        IF test_idx < n_lanes * n_chars
        THEN LET start_idx == (test_idx \div n_chars) * lane_size
             IN  Min2(start_idx + lane_size, Len(key_vals)) - start_idx
        ELSE 0]

\* The struct returned in Ok.
Layout(key_vals, positions, max_lanes, lane_size) ==
    LET n_lanes == NLanesOfEntities(key_vals, lane_size)
        n_chars == Len(positions)
        char_positions == CharPositions(positions, n_lanes, max_lanes)
    IN  [key_vals |-> key_vals,
         n_lanes_of_entities |-> n_lanes,
         n_chars |-> n_chars,
         char_positions |-> char_positions,
         indexes |-> Indexes(key_vals, char_positions, n_chars, n_lanes,
                             max_lanes, lane_size),
         n_valid |-> NValid(key_vals, n_chars, n_lanes, max_lanes, lane_size)]

\* The value of the struct field where there is no struct.
NoMap == [key_vals |-> << >>, n_lanes_of_entities |-> 0, n_chars |-> 0,
          char_positions |-> << >>, indexes |-> << >>, n_valid |-> << >>]

\* Mutant of ErrOf: the list is dropped, the error carries an empty one.
ErrOfDropped(reason, key_vals) ==
    [tag |-> "Err", reason |-> reason, key_vals |-> << >>,
     positions |-> << >>, map |-> NoMap]

\* Err((reason, key_vals)): the list is moved back to the caller.
ErrOf(reason, key_vals) ==
    [tag |-> "Err", reason |-> reason, key_vals |-> key_vals,
     positions |-> << >>, map |-> NoMap]

\* The loop's result turned into the function's: the positions field records
\* the local `positions` at the loop's exit (one push per iteration run).
AfterSelect(sel, key_vals, max_lanes, lane_size) ==
    IF sel.outcome = "panic"
    THEN [tag |-> "Panic", reason |-> "unwrap on None", key_vals |-> << >>,
          positions |-> sel.positions, map |-> NoMap]
    ELSE IF sel.outcome = "unsolved"
    THEN [ErrOf(Unsolvable, key_vals) EXCEPT !.positions = sel.positions]
    ELSE [tag |-> "Ok", reason |-> "", key_vals |-> << >>,
          positions |-> sel.positions,
          map |-> Layout(key_vals, sel.positions, max_lanes, lane_size)]

\* Mutant of Budget: the lane groups are not divided out.
BudgetOfOneGroup(key_vals, max_lanes, lane_size) == max_lanes

\* The number of iterations the selection loop may run.
Budget(key_vals, max_lanes, lane_size) ==
    max_lanes \div NLanesOfEntities(key_vals, lane_size)

\* Mutant of OverCapacity: >= for >.
OverCapacityOffByOne(key_vals, max_lanes, lane_size) ==
    Len(key_vals) >= max_lanes * lane_size

\* key_vals.len() > MAX_LANES * LANE_SIZE
OverCapacity(key_vals, max_lanes, lane_size) ==
    Len(key_vals) > max_lanes * lane_size

try_from(key_vals, max_lanes, lane_size) ==
    IF Len(key_vals) = 0 THEN ErrOf(EmptyInput, key_vals)
    ELSE IF OverCapacity(key_vals, max_lanes, lane_size)
    THEN ErrOf(CapacityExceeded, key_vals)
    ELSE AfterSelect(SelectLoop(key_vals, MaxLenOf(key_vals), << >>,
                                Budget(key_vals, max_lanes, lane_size)),
                     key_vals, max_lanes, lane_size)

\* ------------------------------------------------------------------- get

\* query_c: the query's byte at char_idx; a byte beyond the query's end and a
\* zero byte inside it are both replaced by alt.
QueryC(query, char_idx) ==
    LET alt == WrappingSubU8(char_idx, Len(query))
        query_c == IF char_idx < Len(query) THEN query[char_idx + 1] ELSE 0
    IN  IF query_c = 0 THEN alt ELSE query_c

\* The test indexes the scan of lane group lane_idx uses.
TestIdxs(m, lane_idx) ==
    {lane_idx * m.n_chars + scan_idx : scan_idx \in 0..(m.n_chars - 1)}

\* `matched` after the inner loop: it starts as [LANE_SIZE - i as i8] and is
\* and-ed with the all-ones / all-zeros mask of each plane's comparison.
MatchedVec(m, query, lane_size, lane_idx) ==
    [i \in 0..(lane_size - 1) |->
        IF \A test_idx \in TestIdxs(m, lane_idx) :
              m.indexes[test_idx][i] = QueryC(query, m.char_positions[test_idx])
        THEN AsI8(lane_size - i) ELSE 0]

\* Simd::reduce_max
ReduceMax(v) == CHOOSE x \in {v[i] : i \in DOMAIN v} :
                    \A i \in DOMAIN v : v[i] <= x

\* LANE_SIZE - matched.reduce_max() as usize: the first slot whose bytes all
\* equal the query's, or LANE_SIZE when there is none. (reduce_max is never
\* negative for the lane sizes portable_simd has, at most 64.)
MatchedSlot(m, query, lane_size, lane_idx) ==
    lane_size - ReduceMax(MatchedVec(m, query, lane_size, lane_idx))

\* Mutant of LaneAdd: the slot is not compared with n_valid.
LaneAddUnmasked(m, query, lane_size, lane_idx) ==
    LET matched == MatchedSlot(m, query, lane_size, lane_idx)
    IN  IF matched # 0 THEN matched + lane_idx * lane_size ELSE 0

\* What the lane group adds to matched_idx.
LaneAdd(m, query, lane_size, lane_idx) ==
    LET matched == MatchedSlot(m, query, lane_size, lane_idx)
    IN  IF matched < m.n_valid[(lane_idx + 1) * m.n_chars - 1] /\ matched # 0
        THEN matched + lane_idx * lane_size
        ELSE 0

RECURSIVE SumAdds(_, _, _, _)
SumAdds(m, query, lane_size, lane_idx) ==
    IF lane_idx >= m.n_lanes_of_entities THEN 0
    ELSE LaneAdd(m, query, lane_size, lane_idx)
            + SumAdds(m, query, lane_size, lane_idx + 1)

\* The preconditions get hands to hint::assert_unchecked before the scan:
\* n_lanes_of_entities >= 1, n_chars >= 1, and every test_idx < MAX_LANES.
ScanAsserts(m, max_lanes) ==
    /\ m.n_lanes_of_entities >= 1
    /\ m.n_chars >= 1
    /\ m.n_lanes_of_entities * m.n_chars - 1 < max_lanes

None == [some |-> FALSE, value |-> 0]
Some(v) == [some |-> TRUE, value |-> v]

\* Mutant of Confirm: the candidate's key is not compared with the query.
ConfirmUnchecked(found, query) == Some(ValOf(found))

\* if found.0.as_bytes() == query { Some(&found.1) } else { None }
Confirm(found, query) == IF KeyOf(found) = query THEN Some(ValOf(found)) ELSE None

\* Any Option<&T> at all: None, or a reference to any value of type T,
\* stored in the map or not (an optimised build may read key_vals past its
\* length and return what lies there).
DummyVals == 0..MaxDummyVal
AnyOption == {None} \cup {Some(v) : v \in DummyVals}

\* How a call of get ends: it returns an Option, or the process dies inside
\* the call and nothing is returned.
Returned(o) == [crashed |-> FALSE, returned |-> o]
Crashed == [crashed |-> TRUE, returned |-> None]

\* What a build may do once an assert_unchecked precondition is false
\* (undefined behaviour): return any Option at all, or end without returning
\* (the abort "unsafe precondition(s) violated: hint::assert_unchecked" of a
\* build with debug assertions, a segmentation fault of an optimised build).
AnyOutcome == {Returned(o) : o \in AnyOption} \cup {Crashed}

\* One call of get: the candidate index, what each lane group added, whether
\* the asserted preconditions held, and the set of ways the call may end.
get(m, query, max_lanes, lane_size) ==
    IF ~ScanAsserts(m, max_lanes)
    THEN [asserts |-> FALSE, matched_idx |-> 0, adds |-> << >>,
          outcomes |-> AnyOutcome]
    ELSE LET adds == [lane_idx \in 0..(m.n_lanes_of_entities - 1) |->
                         LaneAdd(m, query, lane_size, lane_idx)]
             matched_idx == SumAdds(m, query, lane_size, 0)
         IN  IF matched_idx < Len(m.key_vals)
             THEN [asserts |-> TRUE, matched_idx |-> matched_idx, adds |-> adds,
                   outcomes |-> {Returned(Confirm(m.key_vals[matched_idx + 1], query))}]
             ELSE [asserts |-> FALSE, matched_idx |-> matched_idx, adds |-> adds,
                   outcomes |-> AnyOutcome]

\* ------------------------------------------------------------ the inputs

\* The bytes and lengths of the enumerated keys: 1 is also a padding byte
\* (the byte one past a key's end is 0, the next is 1). NulKey is a key that
\* holds a NUL byte, which get treats as "beyond the end".
KeyBytes == {1, 2}
KeyLens == 0..2
NulKey == <<0>>

Strings(bytes, lens) == UNION {[1..l -> bytes] : l \in lens}

Keys == Strings(KeyBytes, KeyLens) \cup {NulKey}

\* The entries of a list of keys: the values are 1001, 1002, ... as in
\* tests/main.rs.
Entries(keys) == [i \in 1..Len(keys) |-> <<keys[i], 1000 + i>>]

Lists == {Entries(keys) : keys \in UNION {[1..n -> Keys] : n \in 0..MaxKeys}}

\* The instantiations <<MAX_LANES, LANE_SIZE>> of the enumerated lists.
Configs == {<<1, 2>>, <<4, 2>>, <<2, 4>>}

\* tests/main.rs: the keys and queries of test_simple_example and the keys of
\* test_invalid_example, as ASCII bytes, and the tests' instantiations.
Key1 == <<107, 101, 121, 49>>
Key1Longer == <<107, 101, 121, 49, 108, 111, 110, 103, 101, 114>>
Key == <<107, 101, 121>>
Now4 == <<110, 111, 119, 52>>
Key1Continued == <<107, 101, 121, 49, 32, 99, 111, 110, 116, 105, 110, 117, 101, 100>>
Kon1 == <<107, 111, 110, 49>>
\* "naw4": not a key, differs from "now4" at offset 1 only.
Naw4 == <<110, 97, 119, 52>>
TestSimple == Entries(<<Key1, Key1Longer, Key, Now4>>)
TestInvalid == Entries(<<<<97, 97, 97, 97>>, <<97, 98, 97, 97>>,
                         <<97, 97, 99, 97>>, <<97, 97, 97, 100>>>>)
\* Five keys "a", "b", "aa", "bb", "aab": offsets 0 and 2 tell them apart.
FiveKeys == Entries(<<<<97>>, <<98>>, <<97, 97>>, <<98, 98>>, <<97, 97, 98>>>>)
\* Two keys of 34 bytes that differ at offset 33 only, beyond the search
\* depth, and one of them with a short key.
LongKey(last) == [i \in 1..34 |-> IF i <= 33 THEN 97 ELSE last]
LongPair == Entries(<<LongKey(120), LongKey(121)>>)
LongAndShort == Entries(<<LongKey(120), <<98>>>>)
LongInputs == {LongPair, LongAndShort}
ExampleInputs == {TestSimple, TestInvalid, FiveKeys}
TestConfigs == {<<2, 16>>, <<3, 16>>, <<16, 16>>}
LongConfigs == {<<2, 16>>, <<3, 16>>}
ExampleQueries == {Key1, Key1Longer, Key, Now4, Key1Continued, Kon1, Naw4,
                   LongKey(120), LongKey(121)}

\* The instantiations an entry list is built under.
ConfigsOf(list) ==
    IF list \in LongInputs THEN LongConfigs
    ELSE IF list \in ExampleInputs THEN TestConfigs \cup Configs
    ELSE Configs

\* The queries: every string of NUL and the keys' bytes up to one byte longer
\* than the longest enumerated key, and the examples' queries for their maps.
QueryBytes == KeyBytes \cup {0}
QueryLens == 0..3
Queries == Strings(QueryBytes, QueryLens)
QueriesOf(list) ==
    IF list \in ExampleInputs \cup LongInputs THEN Queries \cup ExampleQueries
    ELSE Queries

\* ------------------------------------------------------- the state machine

VARIABLES
    MAX_LANES,   \* the instantiation's const parameters
    LANE_SIZE,
    key_vals,    \* the entry list the caller owns (moved into try_from)
    pc,          \* "input", "built", "failed", "panicked", "looked", "crashed"
    result,      \* what try_from returned
    given,       \* the list the last try_from was called with
    query,       \* the last query
    found        \* what the last get did and returned

vars == <<MAX_LANES, LANE_SIZE, key_vals, pc, result, given, query, found>>

NoResult == [tag |-> "none", reason |-> "", key_vals |-> << >>,
             positions |-> << >>, map |-> NoMap]
NoGet == [asserts |-> TRUE, matched_idx |-> 0, adds |-> << >>,
          crashed |-> FALSE, returned |-> None]

Init ==
    /\ key_vals \in Lists \cup ExampleInputs \cup LongInputs
    /\ \E cfg \in ConfigsOf(key_vals) : MAX_LANES = cfg[1] /\ LANE_SIZE = cfg[2]
    /\ pc = "input"
    /\ result = NoResult
    /\ given = << >>
    /\ query = << >>
    /\ found = NoGet

\* SimdPerfectScanMap::<T, MAX_LANES, LANE_SIZE>::try_from(key_vals)
TryFrom ==
    /\ pc = "input"
    /\ result' = try_from(key_vals, MAX_LANES, LANE_SIZE)
    /\ pc' = CASE result'.tag = "Ok" -> "built"
                [] result'.tag = "Err" -> "failed"
                [] OTHER -> "panicked"
    /\ given' = key_vals
    /\ key_vals' = << >>
    /\ UNCHANGED <<MAX_LANES, LANE_SIZE, query, found>>

\* The caller takes the list out of the error and tries another
\* instantiation (tests/main.rs, test_invalid_example).
Reuse(cfg) ==
    /\ pc = "failed"
    /\ cfg \in ConfigsOf(result.key_vals)
    /\ key_vals' = result.key_vals
    /\ MAX_LANES' = cfg[1]
    /\ LANE_SIZE' = cfg[2]
    /\ pc' = "input"
    /\ result' = NoResult
    /\ given' = << >>
    /\ UNCHANGED <<query, found>>

\* m.get(&q): the caller holds the returned Option ("looked"), or the
\* process died inside the call ("crashed") and nothing runs after it.
Get(q) ==
    /\ pc = "built"
    /\ q \in QueriesOf(result.map.key_vals)
    /\ LET g == get(result.map, q, MAX_LANES, LANE_SIZE)
       IN  \E r \in g.outcomes :
              /\ found' = [asserts |-> g.asserts, matched_idx |-> g.matched_idx,
                           adds |-> g.adds, crashed |-> r.crashed,
                           returned |-> r.returned]
              /\ pc' = IF r.crashed THEN "crashed" ELSE "looked"
    /\ query' = q
    /\ UNCHANGED <<MAX_LANES, LANE_SIZE, key_vals, result, given>>

\* The caller drops the Option and holds the map again: get left it as it was.
Drop ==
    /\ pc = "looked"
    /\ pc' = "built"
    /\ query' = << >>
    /\ found' = NoGet
    /\ UNCHANGED <<MAX_LANES, LANE_SIZE, key_vals, result, given>>

Next ==
    \/ TryFrom
    \/ \E cfg \in Configs \cup TestConfigs : Reuse(cfg)
    \/ \E q \in Queries \cup ExampleQueries : Get(q)
    \/ Drop

Spec == Init /\ [][Next]_vars

\* ------------------------------------------------------------ the claims

\* try_from has just returned (or panicked); `given` is the list it was called
\* with. (get leaves result as it is: nothing is to be checked again later.)
Called == pc \in {"built", "failed", "panicked"}

Capacity == MAX_LANES * LANE_SIZE

\* The byte of key k at offset p as the specification defines it: the key's
\* byte, or (p - L) mod 256 at or beyond its length L.
SpecByte(k, p) == IF p + 1 <= Len(k) THEN k[p + 1] ELSE (p - Len(k)) % 256

\* The keys of the list all have different byte tuples at the offsets in pos.
Discriminates(list, pos) ==
    \A i, j \in 1..Len(list) :
        (\A p \in pos : SpecByte(KeyOf(list[i]), p) = SpecByte(KeyOf(list[j]), p))
            => i = j

Range(s) == {s[i] : i \in 1..Len(s)}

\* C3 (capacity rejection): a list of zero entries fails with EmptyInput, a
\* list of more than MAX_LANES x LANE_SIZE entries fails with
\* CapacityExceeded, and a list of 1 .. MAX_LANES x LANE_SIZE entries fails
\* with neither.
C3_CapacityRejection ==
    Called =>
        /\ Len(given) = 0 => result.tag = "Err" /\ result.reason = EmptyInput
        /\ Len(given) > Capacity =>
               result.tag = "Err" /\ result.reason = CapacityExceeded
        /\ (1 <= Len(given) /\ Len(given) <= Capacity) =>
               result.reason \notin {EmptyInput, CapacityExceeded}

\* Witness of C3: a list one entry over the capacity was rejected.
C3_Witness ==
    /\ pc = "failed"
    /\ Len(given) = Capacity + 1
    /\ result.reason = CapacityExceeded

\* C4 (input handed back): whenever try_from fails, the error carries the
\* list it was called with, same pairs in the same order, so that a build on
\* the returned list gives what a build on the original gives, under every
\* instantiation the caller may choose next.
C4_InputHandedBack ==
    pc = "failed" =>
        /\ result.reason \in {EmptyInput, CapacityExceeded, Unsolvable}
        /\ result.key_vals = given
        /\ \A cfg \in ConfigsOf(given) :
               try_from(result.key_vals, cfg[1], cfg[2])
                   = try_from(given, cfg[1], cfg[2])

\* Witness of C4: test_invalid_example's list came back from the failed build
\* with MAX_LANES = 2, and builds with MAX_LANES = 3.
C4_Witness ==
    /\ pc = "failed"
    /\ given = TestInvalid
    /\ MAX_LANES = 2
    /\ result.reason = Unsolvable
    /\ try_from(result.key_vals, 3, LANE_SIZE).tag = "Ok"

\* C7 (build totality): for every input list try_from returns Ok or Err with
\* one of the three reasons and the input list; there is no other outcome.
C7_BuildTotality ==
    Called =>
        \/ result.tag = "Ok"
        \/ /\ result.tag = "Err"
           /\ result.reason \in {EmptyInput, CapacityExceeded, Unsolvable}
           /\ result.key_vals = given

\* The list the finished try_from was called with had 1 .. capacity entries,
\* so the selection loop was entered.
Selected == Called /\ 1 <= Len(given) /\ Len(given) <= Capacity

\* floor(MAX_LANES / ceil(N / LANE_SIZE)) for the list try_from was given.
GivenLanes == (Len(given) + LANE_SIZE - 1) \div LANE_SIZE
GivenBudget == MAX_LANES \div GivenLanes

\* C5 (position budget): the selector runs at most floor(MAX_LANES / ceil(N /
\* LANE_SIZE)) iterations (one position pushed per iteration), so a successful
\* build has 1 <= n_chars and n_chars x n_lane_groups <= MAX_LANES; a list
\* whose selection ran that many iterations without its positions telling the
\* keys apart fails with Unsolvable; test_invalid_example's four keys fail with
\* Unsolvable under <2, 16> and build with exactly 3 positions under <3, 16>.
C5_PositionBudget ==
    Selected =>
        /\ Len(result.positions) <= GivenBudget
        /\ result.tag = "Ok" =>
               /\ result.map.n_chars = Len(result.positions)
               /\ 1 <= result.map.n_chars
               /\ result.map.n_lanes_of_entities = GivenLanes
               /\ result.map.n_chars * result.map.n_lanes_of_entities <= MAX_LANES
        /\ (/\ Len(result.positions) = GivenBudget
            /\ ~Discriminates(given, Range(result.positions))) =>
               result.tag = "Err" /\ result.reason = Unsolvable
        /\ (given = TestInvalid /\ MAX_LANES = 2 /\ LANE_SIZE = 16) =>
               result.tag = "Err" /\ result.reason = Unsolvable
        /\ (given = TestInvalid /\ MAX_LANES = 3 /\ LANE_SIZE = 16) =>
               result.tag = "Ok" /\ result.map.n_chars = 3

\* Witness of C5: a build over two lane groups used its whole budget of two
\* positions.
C5_Witness ==
    /\ pc = "built"
    /\ result.map.n_lanes_of_entities = 2
    /\ result.map.n_chars = 2
    /\ GivenBudget = 2

\* The offsets in `chosen`, with at most `left` more offsets from `from` up to
\* max_len - 1, tell the keys apart.
RECURSIVE Extends(_, _, _, _, _)
Extends(list, max_len, chosen, from, left) ==
    \/ Discriminates(list, chosen)
    \/ /\ left > 0
       /\ \E p \in from..(max_len - 1) :
              Extends(list, max_len, chosen \cup {p}, p + 1, left - 1)

\* Some set of at most `budget` offsets below max_len tells the keys apart.
ExistsDiscriminating(list, max_len, budget) ==
    Extends(list, max_len, {}, 0, budget)

GivenMaxLen ==
    LET longest == CHOOSE l \in {Len(KeyOf(given[i])) : i \in 1..Len(given)} :
                       \A i \in 1..Len(given) : Len(KeyOf(given[i])) <= l
    IN  IF longest < MAX_KEY_SEARCH_LEN THEN longest ELSE MAX_KEY_SEARCH_LEN

\* C6 as claimed (meaning of Unsolvable): try_from fails with Unsolvable only
\* when no set of at most floor(MAX_LANES / ceil(N / LANE_SIZE)) offsets below
\* min(longest key, 32) gives every key a distinct padded byte tuple.
C6_UnsolvableMeansNoneExists ==
    (pc = "failed" /\ result.reason = Unsolvable) =>
        ~ExistsDiscriminating(given, GivenMaxLen, GivenBudget)

\* C6 as amended: a successful build implies that such a set exists, and
\* Unsolvable means that the sequence the greedy selection chose, of exactly
\* the budget's length, does not tell the keys apart.
C6_UnsolvableMeansGreedyFailed ==
    Selected =>
        /\ result.tag = "Ok" =>
               ExistsDiscriminating(given, GivenMaxLen, GivenBudget)
        /\ (result.tag = "Err" /\ result.reason = Unsolvable) =>
               /\ Len(result.positions) = GivenBudget
               /\ ~Discriminates(given, Range(result.positions))

\* Witness of C6: the selection failed on a list of distinct keys that no
\* set of offsets within the budget tells apart.
C6_Witness ==
    /\ pc = "failed"
    /\ result.reason = Unsolvable
    /\ \A i, j \in 1..Len(given) : KeyOf(given[i]) = KeyOf(given[j]) => i = j
    /\ ~ExistsDiscriminating(given, GivenMaxLen, GivenBudget)

\* The struct a successful build returned, and its entries.
Map == result.map
Stored == Map.key_vals
Built == pc = "built"

\* The stored discriminating positions: the first n_chars of char_positions.
StoredPositions == {Map.char_positions[s] : s \in 0..(Map.n_chars - 1)}

\* The number of real entries of lane group g.
RealCount(g) ==
    IF (g + 1) * LANE_SIZE <= Len(Stored) THEN LANE_SIZE
    ELSE Len(Stored) - g * LANE_SIZE

\* C8 (uniqueness invariant): in a built structure the stored positions are
\* pairwise distinct offsets below min(longest key, 32), no two entries have
\* the same tuple of bytes at them (with (p - L) mod 256 at or beyond a key's
\* length L), and the test planes hold exactly these bytes for every real
\* entry.
C8_UniquenessInvariant ==
    Built =>
        /\ Cardinality(StoredPositions) = Map.n_chars
        /\ \A p \in StoredPositions : 0 <= p /\ p < GivenMaxLen
        /\ Discriminates(Stored, StoredPositions)
        /\ \A g \in 0..(Map.n_lanes_of_entities - 1) :
           \A s \in 0..(Map.n_chars - 1) :
           \A i \in 0..(RealCount(g) - 1) :
               Map.indexes[g * Map.n_chars + s][i]
                   = SpecByte(KeyOf(Stored[g * LANE_SIZE + i + 1]),
                              Map.char_positions[s])

\* The search depth at work: a list with a key longer than MAX_KEY_SEARCH_LEN
\* was built, with its positions below MAX_KEY_SEARCH_LEN.
C8_WitnessDepth ==
    /\ pc = "built"
    /\ GivenMaxLen = MAX_KEY_SEARCH_LEN
    /\ \E i \in 1..Len(Stored) : Len(KeyOf(Stored[i])) > MAX_KEY_SEARCH_LEN

\* Witness of C8: a structure of two lane groups and two positions, one key a
\* proper prefix of another, with a padding byte in a test plane.
C8_Witness ==
    /\ pc = "built"
    /\ Map.n_lanes_of_entities = 2
    /\ Map.n_chars = 2
    /\ \E i, j \in 1..Len(Stored) :
          /\ Len(KeyOf(Stored[i])) < Len(KeyOf(Stored[j]))
          /\ SubSeq(KeyOf(Stored[j]), 1, Len(KeyOf(Stored[i]))) = KeyOf(Stored[i])
          /\ \E p \in StoredPositions : p > Len(KeyOf(Stored[i]))

NulFree(k) == \A i \in 1..Len(k) : k[i] # 0

\* get has been called on the built map, and has returned or crashed.
GetCalled == pc \in {"looked", "crashed"}

\* C1 (round trip): for a structure built from entries with NUL-free keys and
\* every entry index i, get(key_i) returns Some(value_i).
C1_RoundTrip ==
    (GetCalled /\ \A i \in 1..Len(Stored) : NulFree(KeyOf(Stored[i]))) =>
        \A i \in 1..Len(Stored) :
            KeyOf(Stored[i]) = query =>
                ~found.crashed /\ found.returned = Some(ValOf(Stored[i]))

\* C2 (lookup soundness, negative lookup): get returns Some(v) only if the
\* entry list holds a pair (k, v) with k = q, and for every q that is not a
\* stored key get returns None.
C2_LookupSoundness ==
    GetCalled =>
        /\ ~found.crashed
        /\ found.returned.some =>
               \E i \in 1..Len(Stored) :
                   KeyOf(Stored[i]) = query /\ found.returned.value = ValOf(Stored[i])
        /\ (\A i \in 1..Len(Stored) : KeyOf(Stored[i]) # query) =>
               found.returned = None

\* The query has the bytes of entry i at every stored position, as get
\* computes the query's bytes.
ScanEqual(i) ==
    \A p \in StoredPositions : SpecByte(KeyOf(Stored[i]), p) = QueryC(query, p)

\* Witness of C2: the scan found a candidate in the second lane group whose
\* key is not the query (an extension of it, or different elsewhere), and get
\* returned None.
C2_Witness ==
    /\ pc = "looked"
    /\ found.matched_idx >= LANE_SIZE
    /\ found.adds[1] = found.matched_idx
    /\ ScanEqual(found.matched_idx + 1)
    /\ KeyOf(Stored[found.matched_idx + 1]) # query
    /\ \A i \in 1..Len(Stored) : KeyOf(Stored[i]) # query
    /\ found.returned = None

\* C9 (single candidate, index in range): during get at most one lane group
\* adds a non-zero amount, every test index used is below MAX_LANES, and the
\* candidate index is below the number of entries: every assert_unchecked
\* precondition of get holds, so that no call of get ends without returning.
C9_SingleCandidate ==
    GetCalled =>
        /\ found.asserts
        /\ ~found.crashed /\ pc = "looked"
        /\ Map.n_lanes_of_entities >= 1 /\ Map.n_chars >= 1
        /\ \A g \in 0..(Map.n_lanes_of_entities - 1) :
               \A t \in TestIdxs(Map, g) : t < MAX_LANES
        /\ DOMAIN found.adds = 0..(Map.n_lanes_of_entities - 1)
        /\ Cardinality({g \in DOMAIN found.adds : found.adds[g] # 0}) <= 1
        /\ found.matched_idx < Len(Stored)

\* Witness of C9: the second lane group alone added a non-zero amount, for a
\* query that is not a stored key.
C9_Witness ==
    /\ pc = "looked"
    /\ Map.n_lanes_of_entities = 2
    /\ found.adds[0] = 0
    /\ found.adds[1] # 0
    /\ \A i \in 1..Len(Stored) : KeyOf(Stored[i]) # query

\* C10 (padding slots never match): a slot at or beyond the group's real
\* entry count never determines the candidate: whenever a lane group adds a
\* non-zero amount, the slot it extracted is that of a real entry of the group
\* whose bytes at the stored positions equal the query's, and a group none of
\* whose real entries has the query's bytes adds nothing.
C10_PaddingSlotsNeverMatch ==
    GetCalled =>
        \A g \in DOMAIN found.adds :
            /\ found.adds[g] # 0 =>
                LET slot == found.adds[g] - g * LANE_SIZE
                IN  /\ 0 <= slot /\ slot < RealCount(g)
                    /\ ScanEqual(g * LANE_SIZE + slot + 1)
            /\ (\A i \in 0..(RealCount(g) - 1) : ~ScanEqual(g * LANE_SIZE + i + 1))
                   => found.adds[g] = 0

\* The unused slot i of lane group g holds the query's byte in every plane
\* of the group: the comparison alone would let it through.
UnusedSlotEqual(g, i) ==
    /\ RealCount(g) <= i /\ i < LANE_SIZE
    /\ \A t \in TestIdxs(Map, g) :
          Map.indexes[t][i] = QueryC(query, Map.char_positions[t])

\* Witnesses of C10: the last lane group is partially filled and the query's
\* byte at the only position is 0 (the position is the query's length), so
\* that it equals the zero-filled unused slots; the group still added the
\* slot of a real entry ...
C10_Witness ==
    /\ pc = "looked"
    /\ Map.n_chars = 1
    /\ \A p \in StoredPositions : QueryC(query, p) = 0 /\ p = Len(query)
    /\ \E g \in DOMAIN found.adds :
          /\ g = Map.n_lanes_of_entities - 1
          /\ \E i \in 0..(LANE_SIZE - 1) : UnusedSlotEqual(g, i)
          /\ found.adds[g] # 0

\* ... or, with no real entry equal to the query there, added nothing.
C10_WitnessNone ==
    /\ pc = "looked"
    /\ \E g \in DOMAIN found.adds :
          /\ \E i \in 0..(LANE_SIZE - 1) : UnusedSlotEqual(g, i)
          /\ \A i \in 0..(RealCount(g) - 1) : ~ScanEqual(g * LANE_SIZE + i + 1)
          /\ found.adds[g] = 0

====
